---- MODULE Spec2Model ----
(***************************************************************************)
(* Authorization resolution, link shares, email grants and the trash       *)
(* lifecycle of the Google-Drive-clone backend.                            *)
(*                                                                         *)
(* Two generations of the backend live in the repository:                  *)
(*   - the TypeScript API (routes/shares, routes/folders, routes/files,    *)
(*     utils/permissions) over tables files/folders/shares/permissions     *)
(*     with columns owner_id, folder_id, deleted_at;                       *)
(*   - server/index.js over tables files/folders with columns owner,       *)
(*     folder_id, is_deleted, deleted_at, bucket_path and a storage bucket.*)
(* Each table is a set of rows; a nullable column holds <<>> for null and  *)
(* <<v>> for a value v; a nullable string holds NULL.                      *)
(***************************************************************************)
EXTENDS Integers, Sequences, FiniteSets, TLC

VARIABLES
    files,        \* TS API: table files   (id, owner_id, folder_id, storage_path, deleted_at)
    folders,      \* TS API: table folders (id, owner_id, parent_id, deleted_at)
    shares,       \* table shares (resource_type, resource_id, owner_id, role, expires_at, link_token)
    permissions,  \* table permissions (resource_type, resource_id, grantee_email, role)
    tokenSeq,     \* number of link_token values the store has generated so far
    now,          \* the clock, in days
    pending,      \* requests that passed their owner check and await their write
    resp,         \* the last response sent (or the last value resolveUserRole returned)
    srvFolders,   \* server/index.js: table folders (id, owner, parent_id, is_deleted, deleted_at)
    srvFiles,     \* server/index.js: table files (id, owner, folder_id, bucket_path, is_deleted, deleted_at)
    bucket,       \* server/index.js: the paths stored in bucket "drive-files"
    folderSeq,    \* server/index.js: number of folder ids generated so far
    fileSeq,      \* server/index.js: number of file ids (uuidv4) generated so far
    storage       \* TypeScript API: the keys stored in bucket 'files'

srvVars == <<srvFolders, srvFiles, bucket, folderSeq, fileSeq>>
shareVars == <<shares, permissions, tokenSeq, pending>>

vars == <<files, folders, shares, permissions, tokenSeq, now, pending, resp,
          srvFolders, srvFiles, bucket, folderSeq, fileSeq, storage>>

-----------------------------------------------------------------------------
(* Bounds *)

MaxNow == 2
MaxDays == 1
MaxTokens == 2
MaxPending == 2
MaxFolders == 1
MaxFiles == 2

-----------------------------------------------------------------------------
(* Values *)

NULL == "null"
NoToken == 0

Users == {"u1", "u2"}
Ids == {"x", "y"}
ResourceTypes == {"file", "folder"}

\* Role as the type declares it, plus "" for a request body without a role.
Roles == {"viewer", "editor", "owner"}
RoleInputs == Roles \cup {""}

\* Emails are strings of character codes: 65 = 'A', 66 = 'B', 97 = 'a', 98 = 'b'.
EmailInputs == {<<97>>, <<65>>, <<98>>, <<66>>, <<>>}

toLowerCase(s) == [i \in DOMAIN s |-> IF s[i] \in 65..90 THEN s[i] + 32 ELSE s[i]]

\* The verified email the auth middleware puts on the request (JWT payload).
UserEmail(u) == IF u = "u1" THEN <<97>> ELSE <<66>>

-----------------------------------------------------------------------------
(* Store queries *)

\* supabase.from(resourceType === 'file' ? 'files' : 'folders')
Table(resourceType) == IF resourceType = "file" THEN files ELSE folders

\* .select('owner_id').eq('id', resourceId)
OwnerRows(resourceType, resourceId) ==
    {r \in Table(resourceType) : r.id = resourceId}

\* .single(): data is the row when exactly one row matches, else null.
HasSingle(rows) == Cardinality(rows) = 1
Single(rows) == CHOOSE r \in rows : TRUE

ShareRows(resourceType, resourceId) ==
    {s \in shares : s.resource_type = resourceType /\ s.resource_id = resourceId}

GrantRows(resourceType, resourceId, email) ==
    {g \in permissions : /\ g.resource_type = resourceType
                         /\ g.resource_id = resourceId
                         /\ g.grantee_email = email}

-----------------------------------------------------------------------------
(* utils/permissions *)

can(role) ==
    CASE role = "viewer" -> {"read"}
      [] role = "editor" -> {"read", "write"}
      [] role = "owner"  -> {"read", "write", "hard-delete", "share"}
      [] OTHER -> {}

\* The value roleAllows returns, when it returns: can[role]?.includes(action) ?? false.
roleAllows(role, action) == action \in can(role)

\* `can` is an object literal, so can[role] also finds what Object.prototype
\* holds under these names (among others).
ObjectPrototypeKeys == {"constructor", "toString", "__proto__"}

\* For such a role can[role] is an object without `includes`: ?. guards
\* can[role] alone, and the call of the undefined method raises a TypeError.
roleAllowsThrows(role) == role \in ObjectPrototypeKeys

\* ensureAllowed(role, action): returns ("ok"), throws the error of status 403
\* ("403"), or lets the TypeError of roleAllows through ("TypeError"). A null
\* role and an empty one are falsy and never reach roleAllows.
ensureAllowed(role, action) ==
    IF role = NULL \/ role = "" THEN "403"
    ELSE IF roleAllowsThrows(role) THEN "TypeError"
    ELSE IF ~roleAllows(role, action) THEN "403"
    ELSE "ok"

\* Mutants of resolveUserRole (plausible slips).
resolveUserRole_linkFirst(userId, resourceType, resourceId, shareToken) ==
    LET ownerRows == OwnerRows(resourceType, resourceId)
        sh == {s \in ShareRows(resourceType, resourceId) : s.link_token = shareToken}
    IN  IF shareToken # NoToken /\ HasSingle(sh)
        THEN IF Single(sh).expires_at # <<>> /\ Single(sh).expires_at[1] < now
             THEN NULL
             ELSE Single(sh).role
        ELSE IF /\ HasSingle(ownerRows)
                /\ userId # NULL
                /\ Single(ownerRows).owner_id = userId
             THEN "owner"
             ELSE NULL

resolveUserRole_noExpiry(userId, resourceType, resourceId, shareToken) ==
    LET ownerRows == OwnerRows(resourceType, resourceId)
        sh == {s \in ShareRows(resourceType, resourceId) : s.link_token = shareToken}
    IN  IF /\ HasSingle(ownerRows)
           /\ userId # NULL
           /\ Single(ownerRows).owner_id = userId
        THEN "owner"
        ELSE IF shareToken # NoToken /\ HasSingle(sh)
             THEN Single(sh).role
             ELSE NULL

\* Mutant: the shares lookup by link_token alone, without the two resource filters.
resolveUserRole_tokenOnly(userId, resourceType, resourceId, shareToken) ==
    LET ownerRows == OwnerRows(resourceType, resourceId)
        sh == {s \in shares : s.link_token = shareToken}
    IN  IF /\ HasSingle(ownerRows)
           /\ userId # NULL
           /\ Single(ownerRows).owner_id = userId
        THEN "owner"
        ELSE IF shareToken # NoToken /\ HasSingle(sh)
             THEN IF Single(sh).expires_at # <<>> /\ Single(sh).expires_at[1] < now
                  THEN NULL
                  ELSE Single(sh).role
             ELSE NULL

\* resolveUserRole(userId, resourceType, resourceId, shareToken): Role | null.
\* Step 2 (email grants) is an empty block in the source: the permissions
\* table is never read.
resolveUserRole(userId, resourceType, resourceId, shareToken) ==
    LET ownerRows == OwnerRows(resourceType, resourceId)
        sh == {s \in ShareRows(resourceType, resourceId) : s.link_token = shareToken}
    IN  IF /\ HasSingle(ownerRows)
           /\ userId # NULL
           /\ Single(ownerRows).owner_id = userId
        THEN "owner"
        ELSE IF shareToken # NoToken /\ HasSingle(sh)
             THEN IF Single(sh).expires_at # <<>> /\ Single(sh).expires_at[1] < now
                  THEN NULL
                  ELSE Single(sh).role
             ELSE NULL

\* resolveUserRole while the store fails the queries on the tables in `down`
\* ("resource": files/folders, "shares"): supabase-js does not throw, .single()
\* answers {data: null, error}, and the function reads data alone.
resolveUserRoleDown(down, userId, resourceType, resourceId, shareToken) ==
    LET ownerRows == IF "resource" \in down THEN {}
                     ELSE OwnerRows(resourceType, resourceId)
        sh == IF "shares" \in down THEN {}
              ELSE {s \in ShareRows(resourceType, resourceId) : s.link_token = shareToken}
    IN  IF /\ HasSingle(ownerRows)
           /\ userId # NULL
           /\ Single(ownerRows).owner_id = userId
        THEN "owner"
        ELSE IF shareToken # NoToken /\ HasSingle(sh)
             THEN IF Single(sh).expires_at # <<>> /\ Single(sh).expires_at[1] < now
                  THEN NULL
                  ELSE Single(sh).role
             ELSE NULL

\* The tables that call queries: the resource's always, shares when the owner
\* test did not return and a token was passed.
QueriedTables(down, userId, resourceType, resourceId, shareToken) ==
    IF resolveUserRoleDown(down, userId, resourceType, resourceId, NoToken) = "owner"
       \/ shareToken = NoToken
    THEN {"resource"}
    ELSE {"resource", "shares"}

-----------------------------------------------------------------------------
(* routes/shares: link shares *)

\* Lines 23-35 of POST /link: body validation, then the owner check.
LinkStatus(user, resourceType, resourceId, role) ==
    IF resourceType = "" \/ resourceId = "" \/ role = ""
    THEN 400
    ELSE IF ~HasSingle(OwnerRows(resourceType, resourceId))
         THEN 404
         ELSE IF Single(OwnerRows(resourceType, resourceId)).owner_id # user
              THEN 403
              ELSE 200

\* expires_at = now + expiresInDays when expiresInDays is truthy and > 0, else null.
ExpiresAt(expiresInDays) ==
    IF expiresInDays # <<>> /\ expiresInDays[1] # 0 /\ expiresInDays[1] > 0
    THEN <<now + expiresInDays[1]>>
    ELSE <<>>

\* Mutant: an insert that ignores the conflict target.
UpsertShare_insert(payload) ==
    [rows |-> shares \cup {[resource_type |-> payload.resource_type,
                            resource_id   |-> payload.resource_id,
                            owner_id      |-> payload.owner_id,
                            role          |-> payload.role,
                            expires_at    |-> payload.expires_at,
                            link_token    |-> tokenSeq + 1]},
     seq |-> tokenSeq + 1]

\* .upsert({resource_type, resource_id, owner_id, role, expires_at},
\*         {onConflict: 'resource_type,resource_id'}): the payload carries no
\* link_token, so a new row takes the column's generated value and a
\* conflicting row keeps the link_token it has.
UpsertShare(payload) ==
    LET hit == ShareRows(payload.resource_type, payload.resource_id)
    IN  IF hit = {}
        THEN [rows |-> shares \cup {[resource_type |-> payload.resource_type,
                                     resource_id   |-> payload.resource_id,
                                     owner_id      |-> payload.owner_id,
                                     role          |-> payload.role,
                                     expires_at    |-> payload.expires_at,
                                     link_token    |-> tokenSeq + 1]},
              seq |-> tokenSeq + 1]
        ELSE [rows |-> (shares \ hit) \cup
                         {[s EXCEPT !.owner_id = payload.owner_id,
                                    !.role = payload.role,
                                    !.expires_at = payload.expires_at] : s \in hit},
              seq |-> tokenSeq]

\* The request as it stands once lines 13-41 have run.
LinkRequest(user, resourceType, resourceId, role, expiresInDays) ==
    [op |-> "POST /link", resource_type |-> resourceType, resource_id |-> resourceId,
     owner_id |-> user, role |-> role, expires_at |-> ExpiresAt(expiresInDays),
     raced |-> FALSE]

ErrorResp(op, status, resourceType, resourceId) ==
    [op |-> op, status |-> status, resource_type |-> resourceType,
     resource_id |-> resourceId]

\* Lines 43-61 of POST /link: the upsert and the response built from the row
\* it returns. The response is kept with the request it answers and the
\* link_token the resource had before (prev_token, NoToken when none).
PostLinkWrite(p) ==
    LET up == UpsertShare(p)
        row == CHOOSE s \in up.rows :
                   s.resource_type = p.resource_type /\ s.resource_id = p.resource_id
    IN  /\ up.seq <= MaxTokens
        /\ shares' = up.rows
        /\ tokenSeq' = up.seq
        /\ resp' = [op |-> "POST /link", status |-> 200,
                    resource_type |-> p.resource_type, resource_id |-> p.resource_id,
                    link_token |-> row.link_token, role |-> row.role,
                    expires_at |-> row.expires_at,
                    request |-> p,
                    prev_token |-> IF ShareRows(p.resource_type, p.resource_id) = {}
                                   THEN NoToken
                                   ELSE Single(ShareRows(p.resource_type,
                                                         p.resource_id)).link_token]

\* POST /api/shares/link, run without interleaving.
PostLink(user, resourceType, resourceId, role, expiresInDays) ==
    LET st == LinkStatus(user, resourceType, resourceId, role)
    IN  /\ IF st # 200
           THEN /\ resp' = ErrorResp("POST /link", st, resourceType, resourceId)
                /\ UNCHANGED <<shares, tokenSeq>>
           ELSE PostLinkWrite(LinkRequest(user, resourceType, resourceId, role,
                                          expiresInDays))
        /\ UNCHANGED <<srvVars, files, folders, permissions, now, pending, storage>>

\* Lines 77-84 of DELETE /link: the owner check only.
OwnerStatus(user, resourceType, resourceId) ==
    IF ~HasSingle(OwnerRows(resourceType, resourceId))
    THEN 404
    ELSE IF Single(OwnerRows(resourceType, resourceId)).owner_id # user
         THEN 403
         ELSE 200

\* Mutant: the delete without its two .eq filters.
DeleteLinkWrite_all(p) ==
    /\ shares' = {}
    /\ resp' = [op |-> "DELETE /link", status |-> 200,
                resource_type |-> p.resource_type, resource_id |-> p.resource_id,
                request |-> p]
    /\ UNCHANGED tokenSeq

\* Lines 86-90 of DELETE /link.
DeleteLinkWrite(p) ==
    /\ shares' = shares \ ShareRows(p.resource_type, p.resource_id)
    /\ resp' = [op |-> "DELETE /link", status |-> 200,
                resource_type |-> p.resource_type, resource_id |-> p.resource_id,
                request |-> p]
    /\ UNCHANGED tokenSeq

RevokeRequest(user, resourceType, resourceId) ==
    [op |-> "DELETE /link", resource_type |-> resourceType,
     resource_id |-> resourceId, owner_id |-> user, raced |-> FALSE]

\* DELETE /api/shares/link, run without interleaving.
DeleteLink(user, resourceType, resourceId) ==
    LET st == OwnerStatus(user, resourceType, resourceId)
    IN  /\ IF st # 200
           THEN /\ resp' = ErrorResp("DELETE /link", st, resourceType, resourceId)
                /\ UNCHANGED <<shares, tokenSeq>>
           ELSE DeleteLinkWrite(RevokeRequest(user, resourceType, resourceId))
        /\ UNCHANGED <<srvVars, files, folders, permissions, now, pending, storage>>

-----------------------------------------------------------------------------
(* routes/shares: email grants *)

GrantStatus(user, resourceType, resourceId, email, role) ==
    IF resourceType = "" \/ resourceId = "" \/ email = <<>> \/ role = ""
    THEN 400
    ELSE OwnerStatus(user, resourceType, resourceId)

\* Mutant: the email is stored as typed.
GrantKey_asTyped(email) == email

\* grantee_email: email.toLowerCase()
GrantKey(email) == toLowerCase(email)

\* .upsert({...}, {onConflict: 'resource_type,resource_id,grantee_email'})
UpsertGrant(payload) ==
    LET hit == GrantRows(payload.resource_type, payload.resource_id,
                         payload.grantee_email)
    IN  (permissions \ hit) \cup {payload}

\* POST /api/shares/grant
PostGrant(user, resourceType, resourceId, email, role) ==
    LET st == GrantStatus(user, resourceType, resourceId, email, role)
        payload == [resource_type |-> resourceType, resource_id |-> resourceId,
                    grantee_email |-> GrantKey(email), role |-> role]
    IN  /\ IF st # 200
           THEN /\ resp' = ErrorResp("POST /grant", st, resourceType, resourceId)
                /\ UNCHANGED permissions
           ELSE /\ permissions' = UpsertGrant(payload)
                /\ resp' = [op |-> "POST /grant", status |-> 200,
                            resource_type |-> resourceType,
                            resource_id |-> resourceId,
                            email |-> email,
                            grantee_email |-> payload.grantee_email,
                            role |-> role,
                            prev_role |-> IF GrantRows(resourceType, resourceId,
                                                       payload.grantee_email) = {}
                                          THEN ""
                                          ELSE Single(GrantRows(resourceType, resourceId,
                                                       payload.grantee_email)).role]
        /\ UNCHANGED <<srvVars, files, folders, shares, tokenSeq, now, pending, storage>>

\* DELETE /api/shares/grant
DeleteGrant(user, resourceType, resourceId, email) ==
    LET st == OwnerStatus(user, resourceType, resourceId)
    IN  /\ IF st # 200
           THEN /\ resp' = ErrorResp("DELETE /grant", st, resourceType, resourceId)
                /\ UNCHANGED permissions
           ELSE /\ permissions' = permissions \
                                    GrantRows(resourceType, resourceId, GrantKey(email))
                /\ resp' = [op |-> "DELETE /grant", status |-> 200,
                            resource_type |-> resourceType,
                            resource_id |-> resourceId,
                            email |-> email]
        /\ UNCHANGED <<srvVars, files, folders, shares, tokenSeq, now, pending, storage>>

-----------------------------------------------------------------------------
(* Role resolution as an operation, and the clock *)

TokenInputs == 0..(MaxTokens + 1)

Resolve(userId, resourceType, resourceId, shareToken) ==
    /\ resp' = [op |-> "resolve", userId |-> userId,
                resource_type |-> resourceType, resource_id |-> resourceId,
                shareToken |-> shareToken,
                role |-> resolveUserRole(userId, resourceType, resourceId, shareToken)]
    /\ UNCHANGED <<srvVars, files, folders, shares, permissions, tokenSeq, now, pending, storage>>

\* A call of resolveUserRole during an outage of the tables in `down`.
ResolveDown(down, userId, resourceType, resourceId, shareToken) ==
    /\ resp' = [op |-> "resolve during outage", userId |-> userId,
                resource_type |-> resourceType, resource_id |-> resourceId,
                shareToken |-> shareToken, down |-> down,
                queried |-> QueriedTables(down, userId, resourceType, resourceId,
                                          shareToken),
                role |-> resolveUserRoleDown(down, userId, resourceType, resourceId,
                                             shareToken)]
    /\ UNCHANGED <<srvVars, files, folders, shares, permissions, tokenSeq, now, pending, storage>>

\* A call of ensureAllowed.
EnsureAllowed(role, action) ==
    /\ resp' = [op |-> "ensureAllowed", role |-> role, action |-> action,
                outcome |-> ensureAllowed(role, action)]
    /\ UNCHANGED <<srvVars, files, folders, shares, permissions, tokenSeq, now, pending, storage>>

Tick ==
    /\ now < MaxNow
    /\ now' = now + 1
    /\ UNCHANGED <<srvVars, files, folders, shares, permissions, tokenSeq, pending, resp, storage>>

-----------------------------------------------------------------------------
(* The sharing API, one request at a time *)

NoResp == [op |-> "none", status |-> 0]

Init ==
    /\ files = {[id |-> "x", owner_id |-> "u1", folder_id |-> "x",
                 storage_path |-> "u1/x", deleted_at |-> <<>>]}
    /\ folders = {[id |-> "x", owner_id |-> "u1", parent_id |-> NULL, deleted_at |-> <<>>]}
    /\ shares = {}
    /\ permissions = {}
    /\ tokenSeq = 0
    /\ now = 0
    /\ pending = {}
    /\ resp = NoResp
    /\ srvFolders = {}
    /\ srvFiles = {}
    /\ bucket = {}
    /\ folderSeq = 0
    /\ fileSeq = 0
    /\ storage = {"u1/x"}

\* Resource references requests name: file x and folder x exist, file y does not.
RefInputs == {<<"file", "x">>, <<"folder", "x">>, <<"file", "y">>}

\* Request bodies of POST /link: a role (or none) and expiresInDays absent,
\* negative, zero or positive.
SpecRoles == {"viewer", "editor", ""}
SpecDays == {<<>>, <<0 - 1>>, <<0>>, <<MaxDays>>}

Next ==
    \/ \E u \in Users, ref \in RefInputs, r \in SpecRoles, d \in SpecDays :
          PostLink(u, ref[1], ref[2], r, d)
    \/ \E u \in Users, ref \in RefInputs : DeleteLink(u, ref[1], ref[2])
    \/ \E u \in Users \cup {NULL}, ref \in RefInputs, k \in TokenInputs :
          Resolve(u, ref[1], ref[2], k)
    \/ Tick

Spec == Init /\ [][Next]_vars

-----------------------------------------------------------------------------
(* Email grants alone, on every resource and in every letter case *)

GrantNext ==
    \/ \E u \in Users, ref \in RefInputs, e \in EmailInputs, r \in RoleInputs :
          PostGrant(u, ref[1], ref[2], e, r)
    \/ \E u \in Users, ref \in RefInputs, e \in EmailInputs \ {<<>>} :
          DeleteGrant(u, ref[1], ref[2], e)

GrantSpec == Init /\ [][GrantNext]_vars

-----------------------------------------------------------------------------
(* Links and grants together, on the files *)

FileRefs == {<<"file", "x">>, <<"file", "y">>}
MixedEmails == {<<66>>, <<98>>}
MixedDays == {<<>>, <<MaxDays>>}

MixedNext ==
    \/ \E u \in Users, ref \in FileRefs, r \in RoleInputs, d \in MixedDays :
          PostLink(u, ref[1], ref[2], r, d)
    \/ \E u \in Users, ref \in FileRefs : DeleteLink(u, ref[1], ref[2])
    \/ \E u \in Users, ref \in FileRefs, e \in MixedEmails, r \in RoleInputs :
          PostGrant(u, ref[1], ref[2], e, r)
    \/ \E u \in Users, ref \in FileRefs, e \in MixedEmails :
          DeleteGrant(u, ref[1], ref[2], e)
    \/ \E u \in Users \cup {NULL}, ref \in FileRefs, k \in TokenInputs :
          Resolve(u, ref[1], ref[2], k)
    \/ Tick

MixedSpec == Init /\ [][MixedNext]_vars

-----------------------------------------------------------------------------
(* The gate: role resolution while the store fails, and ensureAllowed *)

Outages == {{"resource"}, {"shares"}, {"resource", "shares"}}
GateRoles == {NULL, "", "viewer", "editor", "owner", "admin", "constructor", "__proto__"}
GateActions == {"read", "write", "hard-delete", "share", "purge"}
GuardRoles == {"viewer", "editor"}

GuardNext ==
    \/ \E u \in Users, ref \in FileRefs, r \in GuardRoles, d \in MixedDays :
          PostLink(u, ref[1], ref[2], r, d)
    \/ \E u \in Users, ref \in FileRefs : DeleteLink(u, ref[1], ref[2])
    \/ \E d \in Outages, u \in Users \cup {NULL}, ref \in FileRefs, k \in TokenInputs :
          ResolveDown(d, u, ref[1], ref[2], k)
    \/ \E r \in GateRoles, a \in GateActions : EnsureAllowed(r, a)
    \/ Tick

GuardSpec == Init /\ [][GuardNext]_vars

-----------------------------------------------------------------------------
(* Link requests in flight together: each handler runs its owner check,    *)
(* awaits, and later runs its write.                                       *)

SameResource(p, q) ==
    p.resource_type = q.resource_type /\ p.resource_id = q.resource_id

\* The requests still in flight once p has written: those on p's resource
\* have now been overtaken by a concurrent write.
Overtaken(p) ==
    {IF SameResource(p, q) THEN [q EXCEPT !.raced = TRUE] ELSE q : q \in pending \ {p}}

\* POST /link up to its upsert (lines 13-41).
PostLinkCheck(user, resourceType, resourceId, role, expiresInDays) ==
    LET st == LinkStatus(user, resourceType, resourceId, role)
    IN  /\ Cardinality(pending) < MaxPending
        /\ IF st # 200
           THEN /\ resp' = ErrorResp("POST /link", st, resourceType, resourceId)
                /\ UNCHANGED pending
           ELSE /\ pending' = pending \cup
                      {LinkRequest(user, resourceType, resourceId, role, expiresInDays)}
                /\ UNCHANGED resp
        /\ UNCHANGED <<srvVars, files, folders, shares, permissions, tokenSeq, now, storage>>

\* POST /link from its upsert on (lines 43-61).
PostLinkUpsert(p) ==
    /\ p.op = "POST /link"
    /\ PostLinkWrite(p)
    /\ pending' = Overtaken(p)
    /\ UNCHANGED <<srvVars, files, folders, permissions, now, storage>>

\* DELETE /link up to its delete (lines 73-84).
DeleteLinkCheck(user, resourceType, resourceId) ==
    LET st == OwnerStatus(user, resourceType, resourceId)
    IN  /\ Cardinality(pending) < MaxPending
        /\ IF st # 200
           THEN /\ resp' = ErrorResp("DELETE /link", st, resourceType, resourceId)
                /\ UNCHANGED pending
           ELSE /\ pending' = pending \cup {RevokeRequest(user, resourceType, resourceId)}
                /\ UNCHANGED resp
        /\ UNCHANGED <<srvVars, files, folders, shares, permissions, tokenSeq, now, storage>>

\* DELETE /link from its delete on (lines 86-90).
DeleteLinkDelete(p) ==
    /\ p.op = "DELETE /link"
    /\ DeleteLinkWrite(p)
    /\ pending' = Overtaken(p)
    /\ UNCHANGED <<srvVars, files, folders, permissions, now, storage>>

\* Request bodies of POST /link, as <<role, expiresInDays>>.
ConcBodies == {<<"viewer", <<>>>>, <<"editor", <<MaxDays>>>>, <<"", <<>>>>}

ConcNext ==
    \/ \E u \in Users, ref \in RefInputs, b \in ConcBodies :
          PostLinkCheck(u, ref[1], ref[2], b[1], b[2])
    \/ \E p \in pending : PostLinkUpsert(p)
    \/ \E u \in Users, ref \in RefInputs : DeleteLinkCheck(u, ref[1], ref[2])
    \/ \E p \in pending : DeleteLinkDelete(p)

ConcSpec == Init /\ [][ConcNext]_vars

-----------------------------------------------------------------------------
(* server/index.js: folders, files and the trash *)

SrvFolderRows(id) == {f \in srvFolders : f.id = id}
SrvFileRows(id) == {f \in srvFiles : f.id = id}

\* .from("files") ... .eq("folder_id", id)
FilesIn(id) == {f \in srvFiles : f.folder_id = <<id>>}

\* The select, the 404 and the 403 that open the owner-checked handlers.
SrvStatus(user, rows) ==
    IF ~HasSingle(rows) THEN 404
    ELSE IF Single(rows).owner # user THEN 403
    ELSE 200

IdResp(op, status, id) == [op |-> op, status |-> status, id |-> id]

\* POST /folders: parent_id is stored as given.
CreateFolder(user, name, parent_id) ==
    /\ IF name = ""
       THEN /\ resp' = IdResp("POST /folders", 400, 0)
            /\ UNCHANGED <<srvFolders, folderSeq>>
       ELSE /\ folderSeq < MaxFolders
            /\ folderSeq' = folderSeq + 1
            /\ srvFolders' = srvFolders \cup
                   {[id |-> folderSeq + 1, owner |-> user, parent_id |-> parent_id,
                     is_deleted |-> FALSE, deleted_at |-> <<>>]}
            /\ resp' = IdResp("POST /folders", 200, folderSeq + 1)
    /\ UNCHANGED <<srvFiles, bucket, fileSeq, files, folders, shareVars, now, storage>>

\* POST /files/upload: folder_id is stored as given; the blob's path is
\* unique to the new id.
Upload(user, hasFile, folder_id) ==
    /\ IF ~hasFile
       THEN /\ resp' = IdResp("POST /files/upload", 400, 0)
            /\ UNCHANGED <<srvFiles, bucket, fileSeq>>
       ELSE /\ fileSeq < MaxFiles
            /\ fileSeq' = fileSeq + 1
            /\ bucket' = bucket \cup {fileSeq + 1}
            /\ srvFiles' = srvFiles \cup
                   {[id |-> fileSeq + 1, owner |-> user, folder_id |-> folder_id,
                     bucket_path |-> fileSeq + 1,
                     is_deleted |-> FALSE, deleted_at |-> <<>>]}
            /\ resp' = IdResp("POST /files/upload", 200, fileSeq + 1)
    /\ UNCHANGED <<srvFolders, folderSeq, files, folders, shareVars, now, storage>>

\* Mutant: the folder row alone is updated.
CascadeFiles_none(id, deleted) == srvFiles

\* .from("files").update({is_deleted, deleted_at}).eq("folder_id", id)
CascadeFiles(id, deleted) ==
    {IF f.folder_id = <<id>>
     THEN [f EXCEPT !.is_deleted = deleted,
                    !.deleted_at = IF deleted THEN <<now>> ELSE <<>>]
     ELSE f : f \in srvFiles}

\* DELETE /folders/:id. A success is kept with what was in the trash before
\* it: whether the folder was, and which of its files were.
SoftDeleteFolder(user, id) ==
    LET st == SrvStatus(user, SrvFolderRows(id))
    IN  /\ resp' = IF st # 200
                   THEN IdResp("DELETE /folders/:id", st, id)
                   ELSE [op |-> "DELETE /folders/:id", status |-> 200, id |-> id,
                         folder_was_trashed |-> Single(SrvFolderRows(id)).is_deleted,
                         files_were_trashed |->
                             {f.id : f \in {g \in FilesIn(id) : g.is_deleted}}]
        /\ IF st # 200
           THEN UNCHANGED <<srvFolders, srvFiles>>
           ELSE /\ srvFolders' = {IF f.id = id
                                  THEN [f EXCEPT !.is_deleted = TRUE,
                                                 !.deleted_at = <<now>>]
                                  ELSE f : f \in srvFolders}
                /\ srvFiles' = CascadeFiles(id, TRUE)
        /\ UNCHANGED <<bucket, folderSeq, fileSeq, files, folders, shareVars, now, storage>>

\* POST /restore/folder/:id
RestoreFolder(user, id) ==
    LET st == SrvStatus(user, SrvFolderRows(id))
    IN  /\ resp' = IdResp("POST /restore/folder/:id", st, id)
        /\ IF st # 200
           THEN UNCHANGED <<srvFolders, srvFiles>>
           ELSE /\ srvFolders' = {IF f.id = id
                                  THEN [f EXCEPT !.is_deleted = FALSE,
                                                 !.deleted_at = <<>>]
                                  ELSE f : f \in srvFolders}
                /\ srvFiles' = CascadeFiles(id, FALSE)
        /\ UNCHANGED <<bucket, folderSeq, fileSeq, files, folders, shareVars, now, storage>>

\* DELETE /files/:id
SoftDeleteFile(user, id) ==
    LET st == SrvStatus(user, SrvFileRows(id))
    IN  /\ resp' = IdResp("DELETE /files/:id", st, id)
        /\ IF st # 200
           THEN UNCHANGED srvFiles
           ELSE srvFiles' = {IF f.id = id
                             THEN [f EXCEPT !.is_deleted = TRUE, !.deleted_at = <<now>>]
                             ELSE f : f \in srvFiles}
        /\ UNCHANGED <<srvFolders, bucket, folderSeq, fileSeq, files, folders,
                       shareVars, now, storage>>

\* POST /restore/file/:id
RestoreFile(user, id) ==
    LET st == SrvStatus(user, SrvFileRows(id))
    IN  /\ resp' = IdResp("POST /restore/file/:id", st, id)
        /\ IF st # 200
           THEN UNCHANGED srvFiles
           ELSE srvFiles' = {IF f.id = id
                             THEN [f EXCEPT !.is_deleted = FALSE, !.deleted_at = <<>>]
                             ELSE f : f \in srvFiles}
        /\ UNCHANGED <<srvFolders, bucket, folderSeq, fileSeq, files, folders,
                       shareVars, now, storage>>

\* DELETE /folders/:id/hard. failing: the files of the folder whose blob the
\* bucket does not remove. The handler only warns about them, then deletes
\* every file row of the folder, then the folder row, and answers {ok: true}.
HardDeleteFolder(user, id, failing) ==
    LET st == SrvStatus(user, SrvFolderRows(id))
        inside == FilesIn(id)
    IN  /\ failing \subseteq {f.id : f \in inside}
        /\ st # 200 => failing = {}
        /\ IF st # 200
           THEN /\ resp' = IdResp("DELETE /folders/:id/hard", st, id)
                /\ UNCHANGED <<srvFolders, srvFiles, bucket>>
           ELSE /\ bucket' = bucket \
                      {f.bucket_path : f \in {g \in inside : g.id \notin failing}}
                /\ srvFiles' = srvFiles \ inside
                /\ srvFolders' = srvFolders \ SrvFolderRows(id)
                /\ resp' = [op |-> "DELETE /folders/:id/hard", status |-> 200,
                            id |-> id, ok |-> TRUE,
                            inside |-> {f.id : f \in inside},
                            warned |-> failing]
        /\ UNCHANGED <<folderSeq, fileSeq, files, folders, shareVars, now, storage>>

\* DELETE /files/:id/hard. rmFails: the bucket does not remove the blob; the
\* handler only warns, then deletes the row and answers {ok: true}. The row's
\* is_deleted is not read.
HardDeleteFile(user, id, rmFails) ==
    LET st == SrvStatus(user, SrvFileRows(id))
    IN  /\ st # 200 => ~rmFails
        /\ IF st # 200
           THEN /\ resp' = IdResp("DELETE /files/:id/hard", st, id)
                /\ UNCHANGED <<srvFiles, bucket>>
           ELSE /\ bucket' = IF rmFails THEN bucket
                              ELSE bucket \ {Single(SrvFileRows(id)).bucket_path}
                /\ srvFiles' = srvFiles \ SrvFileRows(id)
                /\ resp' = [op |-> "DELETE /files/:id/hard", status |-> 200,
                            id |-> id, ok |-> TRUE, user |-> user, warned |-> rmFails]
        /\ UNCHANGED <<srvFolders, folderSeq, fileSeq, files, folders, shareVars,
                       now, storage>>

\* Mutant: the listing without its owner filter.
SrvTrashOf_anyOwner(rows, owner) == {r \in rows : r.is_deleted}

\* .select("*").eq("owner", owner).eq("is_deleted", true)
SrvTrashOf(rows, owner) == {r \in rows : r.owner = owner /\ r.is_deleted}

\* GET /trash
ListTrash(user) ==
    /\ resp' = [op |-> "GET /trash", status |-> 200, user |-> user,
                files |-> SrvTrashOf(srvFiles, user),
                folders |-> SrvTrashOf(srvFolders, user)]
    /\ UNCHANGED <<srvVars, files, folders, shareVars, now, storage>>

\* PATCH /folders/:id/move: no select of the row and no owner test precede the
\* update; .single() on an update that matched no row is an error (500). The
\* response is kept with the caller and the owner the row had.
MoveFolder(user, id, parent_id) ==
    LET rows == SrvFolderRows(id)
    IN  /\ IF ~HasSingle(rows)
           THEN /\ resp' = [op |-> "PATCH /folders/:id/move", status |-> 500,
                            id |-> id, user |-> user]
                /\ UNCHANGED srvFolders
           ELSE /\ srvFolders' = {IF f.id = id THEN [f EXCEPT !.parent_id = parent_id]
                                  ELSE f : f \in srvFolders}
                /\ resp' = [op |-> "PATCH /folders/:id/move", status |-> 200,
                            id |-> id, user |-> user, owner |-> Single(rows).owner]
        /\ UNCHANGED <<srvFiles, bucket, folderSeq, fileSeq, files, folders,
                       shareVars, now, storage>>

\* PATCH /files/:id/move: the same shape on table files.
MoveFile(user, id, folder_id) ==
    LET rows == SrvFileRows(id)
    IN  /\ IF ~HasSingle(rows)
           THEN /\ resp' = [op |-> "PATCH /files/:id/move", status |-> 500,
                            id |-> id, user |-> user]
                /\ UNCHANGED srvFiles
           ELSE /\ srvFiles' = {IF f.id = id THEN [f EXCEPT !.folder_id = folder_id]
                                ELSE f : f \in srvFiles}
                /\ resp' = [op |-> "PATCH /files/:id/move", status |-> 200,
                            id |-> id, user |-> user, owner |-> Single(rows).owner]
        /\ UNCHANGED <<srvFolders, bucket, folderSeq, fileSeq, files, folders,
                       shareVars, now, storage>>

\* GET /files/:id/download: 404 without the row, else a signed URL of the
\* row's bucket_path; the row's owner is not compared with the caller.
Download(user, id) ==
    LET rows == SrvFileRows(id)
    IN  /\ resp' = IF ~HasSingle(rows)
                   THEN [op |-> "GET /files/:id/download", status |-> 404,
                         id |-> id, user |-> user]
                   ELSE IF Single(rows).bucket_path \notin bucket
                        THEN [op |-> "GET /files/:id/download", status |-> 500,
                              id |-> id, user |-> user]
                        ELSE [op |-> "GET /files/:id/download", status |-> 200,
                              id |-> id, user |-> user, owner |-> Single(rows).owner,
                              url |-> Single(rows).bucket_path]
        /\ UNCHANGED <<srvVars, files, folders, shareVars, now, storage>>

-----------------------------------------------------------------------------
(* server/index.js: the folder cascade, one store call at a time *)

\* .from("folders").update({is_deleted, deleted_at, updated_at}).eq("id", id)
FolderRowUpdate(id, deleted) ==
    {IF f.id = id
     THEN [f EXCEPT !.is_deleted = deleted,
                    !.deleted_at = IF deleted THEN <<now>> ELSE <<>>]
     ELSE f : f \in srvFolders}

\* The run of a cascading handler once its folder row is written. It is kept
\* with the files table it started from and with the stopped run (of the same
\* operation on the same folder) it re-runs, if the last event was that stop.
CascadeRequest(op, user, id, deleted) ==
    [op |-> op, user |-> user, id |-> id, deleted |-> deleted,
     files_before |-> srvFiles,
     reruns |-> IF resp.op = "stopped" /\ resp.id = id /\ resp.request.op = op
                THEN {[op |-> op, user |-> resp.request.user,
                       files_before |-> resp.request.files_before]}
                ELSE {}]

\* The select, the owner test and the update of the folder row; no response
\* is sent yet on success.
CascadeRow(op, user, id, deleted) ==
    LET st == SrvStatus(user, SrvFolderRows(id))
    IN  /\ Cardinality(pending) < MaxPending
        /\ IF st # 200
           THEN /\ resp' = IdResp(op, st, id)
                /\ UNCHANGED <<srvFolders, pending>>
           ELSE /\ srvFolders' = FolderRowUpdate(id, deleted)
                /\ pending' = pending \cup {CascadeRequest(op, user, id, deleted)}
                /\ UNCHANGED resp
        /\ UNCHANGED <<srvFiles, bucket, folderSeq, fileSeq, files, folders, shares,
                       permissions, tokenSeq, now, storage>>

\* The update of the folder's file rows, then the response.
CascadeFilesStep(op, p) ==
    /\ p.op = op
    /\ srvFiles' = CascadeFiles(p.id, p.deleted)
    /\ pending' = pending \ {p}
    /\ resp' = [op |-> op, status |-> 200, id |-> p.id, request |-> p]
    /\ UNCHANGED <<srvFolders, bucket, folderSeq, fileSeq, files, folders, shares,
                   permissions, tokenSeq, now, storage>>

\* DELETE /folders/:id, lines 140-151.
SoftDeleteFolderRow(user, id) == CascadeRow("DELETE /folders/:id", user, id, TRUE)

\* DELETE /folders/:id, lines 153-154.
SoftDeleteFolderFiles(p) == CascadeFilesStep("DELETE /folders/:id", p)

\* POST /restore/folder/:id, lines 279-290.
RestoreFolderRow(user, id) == CascadeRow("POST /restore/folder/:id", user, id, FALSE)

\* POST /restore/folder/:id, lines 292-293.
RestoreFolderFiles(p) == CascadeFilesStep("POST /restore/folder/:id", p)

\* The process stops between the two updates of a run: the files are not
\* updated and no response is sent.
Stop(p) ==
    /\ pending' = pending \ {p}
    /\ resp' = [op |-> "stopped", status |-> 0, id |-> p.id, request |-> p]
    /\ UNCHANGED <<srvVars, files, folders, shares, permissions, tokenSeq, now,
                   storage>>

-----------------------------------------------------------------------------
(* routes/folders (TypeScript API): the trash and the tree *)

TsFolderRows(id) == {f \in folders : f.id = id}

TsStatus(user, rows) ==
    IF ~HasSingle(rows) THEN 404
    ELSE IF Single(rows).owner_id # user THEN 403
    ELSE 200

\* The answer of a folders.routes or files.routes handler, kept with the
\* request's :id (a uuid, where the ids of server/index.js are serial numbers)
\* and the caller (req.user.id).
TsIdResp(op, status, id, user) ==
    [op |-> op, status |-> status, uuid |-> id, user |-> user]

\* DELETE /api/folders/:id: the folder row alone is updated.
TsSoftDeleteFolder(user, id) ==
    LET st == TsStatus(user, TsFolderRows(id))
    IN  /\ resp' = TsIdResp("DELETE /api/folders/:id", st, id, user)
        /\ IF st # 200
           THEN UNCHANGED folders
           ELSE folders' = {IF f.id = id THEN [f EXCEPT !.deleted_at = <<now>>]
                            ELSE f : f \in folders}
        /\ UNCHANGED <<srvVars, files, shareVars, now, storage>>

\* POST /api/folders/:id/restore
TsRestoreFolder(user, id) ==
    LET st == TsStatus(user, TsFolderRows(id))
    IN  /\ resp' = TsIdResp("POST /api/folders/:id/restore", st, id, user)
        /\ IF st # 200
           THEN UNCHANGED folders
           ELSE folders' = {IF f.id = id THEN [f EXCEPT !.deleted_at = <<>>]
                            ELSE f : f \in folders}
        /\ UNCHANGED <<srvVars, files, shareVars, now, storage>>

\* Lines 219-223 and 267-271 of folders.routes: a target folder, when one is
\* named, must exist and belong to the caller.
TsParentStatus(user, parentId) ==
    IF parentId = NULL THEN 200 ELSE TsStatus(user, TsFolderRows(parentId))

\* The id the store gives the next folders row.
TsNewId == CHOOSE i \in Ids : TsFolderRows(i) = {}

\* POST /api/folders
TsCreateFolder(user, name, parentId) ==
    LET st == IF name = "" THEN 400 ELSE TsParentStatus(user, parentId)
    IN  /\ IF st # 200
           THEN /\ resp' = TsIdResp("POST /api/folders", st, NULL, user)
                /\ UNCHANGED folders
           ELSE /\ \E i \in Ids : TsFolderRows(i) = {}
                /\ folders' = folders \cup
                       {[id |-> TsNewId, owner_id |-> user, parent_id |-> parentId,
                         deleted_at |-> <<>>]}
                /\ resp' = TsIdResp("POST /api/folders", 200, TsNewId, user)
        /\ UNCHANGED <<srvVars, files, shareVars, now, storage>>

\* PATCH /api/folders/:id/move: owner checks on the folder and on the target,
\* then parent_id is written; the target's own ancestors are not read.
TsMoveFolder(user, id, newParentId) ==
    LET own == TsStatus(user, TsFolderRows(id))
        st == IF own # 200 THEN own ELSE TsParentStatus(user, newParentId)
    IN  /\ resp' = TsIdResp("PATCH /api/folders/:id/move", st, id, user)
        /\ IF st # 200
           THEN UNCHANGED folders
           ELSE folders' = {IF f.id = id THEN [f EXCEPT !.parent_id = newParentId]
                            ELSE f : f \in folders}
        /\ UNCHANGED <<srvVars, files, shareVars, now, storage>>

-----------------------------------------------------------------------------
(* routes/files (TypeScript API): the trash *)

TsFileRows(id) == {f \in files : f.id = id}

\* DELETE /api/files/:id
TsSoftDeleteFile(user, id) ==
    LET st == TsStatus(user, TsFileRows(id))
    IN  /\ resp' = TsIdResp("DELETE /api/files/:id", st, id, user)
        /\ IF st # 200
           THEN UNCHANGED files
           ELSE files' = {IF f.id = id THEN [f EXCEPT !.deleted_at = <<now>>]
                          ELSE f : f \in files}
        /\ UNCHANGED <<srvVars, folders, shareVars, now, storage>>

\* POST /api/files/:id/restore
TsRestoreFile(user, id) ==
    LET st == TsStatus(user, TsFileRows(id))
    IN  /\ resp' = TsIdResp("POST /api/files/:id/restore", st, id, user)
        /\ IF st # 200
           THEN UNCHANGED files
           ELSE files' = {IF f.id = id THEN [f EXCEPT !.deleted_at = <<>>]
                          ELSE f : f \in files}
        /\ UNCHANGED <<srvVars, folders, shareVars, now, storage>>

\* PATCH /api/files/:id/move: owner checks on the file and on the target
\* folder (when one is named), then folder_id is written.
TsMoveFile(user, id, newFolderId) ==
    LET own == TsStatus(user, TsFileRows(id))
        st == IF own # 200 THEN own ELSE TsParentStatus(user, newFolderId)
    IN  /\ resp' = TsIdResp("PATCH /api/files/:id/move", st, id, user)
        /\ IF st # 200
           THEN UNCHANGED files
           ELSE files' = {IF f.id = id THEN [f EXCEPT !.folder_id = newFolderId]
                          ELSE f : f \in files}
        /\ UNCHANGED <<srvVars, folders, shareVars, now, storage>>

\* DELETE /api/files/:id/hard. rmFails: the bucket does not remove the blob,
\* which the handler ignores; the row is deleted whatever its deleted_at.
TsHardDeleteFile(user, id, rmFails) ==
    LET st == TsStatus(user, TsFileRows(id))
    IN  /\ st # 200 => ~rmFails
        /\ resp' = TsIdResp("DELETE /api/files/:id/hard", st, id, user)
        /\ IF st # 200
           THEN UNCHANGED <<files, storage>>
           ELSE /\ storage' = IF rmFails THEN storage
                               ELSE storage \ {Single(TsFileRows(id)).storage_path}
                /\ files' = files \ TsFileRows(id)
        /\ UNCHANGED <<srvVars, folders, shareVars, now>>

\* .not('deleted_at', 'is', null).eq('owner_id', user.id)
TsTrashOf(rows, owner) == {r \in rows : r.deleted_at # <<>> /\ r.owner_id = owner}

\* GET /api/files/trash/list: .select('id,name,folder_id,deleted_at') on files
\* and .select('id,name,parent_id,deleted_at') on folders.
TsListTrash(user) ==
    /\ resp' = [op |-> "GET /api/files/trash/list", status |-> 200, user |-> user,
                files |-> {[uuid |-> r.id, folder_id |-> r.folder_id,
                            deleted_at |-> r.deleted_at] : r \in TsTrashOf(files, user)},
                folders |-> {[uuid |-> r.id, parent_id |-> r.parent_id,
                              deleted_at |-> r.deleted_at] :
                                 r \in TsTrashOf(folders, user)}]
    /\ UNCHANGED <<srvVars, files, folders, shareVars, now, storage>>

-----------------------------------------------------------------------------
(* The trash lifecycle of both backends *)

FolderIdInputs == 1..MaxFolders
FileIdInputs == 1..MaxFiles
ParentInputs == {<<>>} \cup {<<i>> : i \in FolderIdInputs}

TrashNext ==
    \/ \E u \in Users, n \in {"", "Docs"}, p \in ParentInputs : CreateFolder(u, n, p)
    \/ \E u \in Users, h \in BOOLEAN, p \in ParentInputs : Upload(u, h, p)
    \/ \E u \in Users, i \in FolderIdInputs : SoftDeleteFolder(u, i)
    \/ \E u \in Users, i \in FolderIdInputs : RestoreFolder(u, i)
    \/ \E u \in Users, i \in FileIdInputs : SoftDeleteFile(u, i)
    \/ \E u \in Users, i \in FileIdInputs : RestoreFile(u, i)
    \/ \E u \in Users, i \in FolderIdInputs, failing \in SUBSET FileIdInputs :
          HardDeleteFolder(u, i, failing)
    \/ \E u \in Users, i \in Ids : TsSoftDeleteFolder(u, i)
    \/ \E u \in Users, i \in Ids : TsRestoreFolder(u, i)
    \/ \E u \in Users, i \in Ids : TsSoftDeleteFile(u, i)
    \/ \E u \in Users, i \in Ids : TsRestoreFile(u, i)

TrashSpec == Init /\ [][TrashNext]_vars

-----------------------------------------------------------------------------
(* The folder tree of both backends: create, move, download *)

TsParentInputs == {NULL} \cup Ids

\* The parents a create request names: the root or a folder that exists.
ExistingParents == {<<>>} \cup {<<f.id>> : f \in srvFolders}

TreeNext ==
    \/ \E u \in Users, n \in {"", "Docs"}, p \in ExistingParents : CreateFolder(u, n, p)
    \/ \E u \in Users, h \in BOOLEAN, p \in ParentInputs : Upload(u, h, p)
    \/ \E u \in Users, i \in FolderIdInputs, p \in ParentInputs : MoveFolder(u, i, p)
    \/ \E u \in Users, i \in FileIdInputs, p \in ParentInputs : MoveFile(u, i, p)
    \/ \E u \in Users, i \in FileIdInputs : Download(u, i)
    \/ \E u \in Users, n \in {"", "Docs"}, p \in TsParentInputs : TsCreateFolder(u, n, p)
    \/ \E u \in Users, i \in Ids, p \in TsParentInputs : TsMoveFolder(u, i, p)

TreeSpec == Init /\ [][TreeNext]_vars

-----------------------------------------------------------------------------
(* Shared resources in the trash: links, grants, soft delete and restore *)

LifeNext ==
    \/ \E u \in Users, ref \in RefInputs, r \in GuardRoles :
          PostLink(u, ref[1], ref[2], r, <<>>)
    \/ \E u \in Users, ref \in RefInputs, r \in GuardRoles :
          PostGrant(u, ref[1], ref[2], UserEmail("u2"), r)
    \/ \E u \in Users, i \in Ids : TsSoftDeleteFile(u, i)
    \/ \E u \in Users, i \in Ids : TsRestoreFile(u, i)
    \/ \E u \in Users, i \in Ids : TsSoftDeleteFolder(u, i)
    \/ \E u \in Users, i \in Ids : TsRestoreFolder(u, i)
    \/ \E u \in Users : CreateFolder(u, "Docs", <<>>)
    \/ \E u \in Users, i \in FolderIdInputs : SoftDeleteFolder(u, i)

LifeSpec == Init /\ [][LifeNext]_vars

-----------------------------------------------------------------------------
(* Revocation: links exist on the file only and grants for one email only,  *)
(* revokes are sent for every resource and for other emails as well         *)

RevokeEmails == {<<97>>, <<66>>, <<98>>}

RevokeNext ==
    \/ \E u \in Users, r \in GuardRoles : PostLink(u, "file", "x", r, <<>>)
    \/ \E u \in Users, ref \in RefInputs : DeleteLink(u, ref[1], ref[2])
    \/ \E u \in Users, ref \in RefInputs, r \in GuardRoles :
          PostGrant(u, ref[1], ref[2], UserEmail("u2"), r)
    \/ \E u \in Users, ref \in RefInputs, e \in RevokeEmails :
          DeleteGrant(u, ref[1], ref[2], e)

RevokeSpec == Init /\ [][RevokeNext]_vars

-----------------------------------------------------------------------------
(* The trash and its listing. The two backends keep separate tables, so a   *)
(* behaviour exercises one of them: the requests to one are sent while the  *)
(* other is as it was created.                                              *)

SrvUnused == folderSeq = 0 /\ fileSeq = 0
TsUnused == files # {} /\ \A r \in files \cup folders : r.deleted_at = <<>>

ListNext ==
    \/ TsUnused /\ CreateFolder("u1", "Docs", <<>>)
    \/ \E u \in Users, p \in ExistingParents : TsUnused /\ Upload(u, TRUE, p)
    \/ \E u \in Users, i \in FolderIdInputs : SoftDeleteFolder(u, i)
    \/ \E u \in Users, i \in FolderIdInputs : RestoreFolder(u, i)
    \/ \E u \in Users, i \in FileIdInputs : SoftDeleteFile(u, i)
    \/ \E u \in Users, i \in FileIdInputs : RestoreFile(u, i)
    \/ \E u \in Users, i \in FileIdInputs : HardDeleteFile(u, i, FALSE)
    \/ \E u \in Users : ListTrash(u)
    \/ \E u \in Users, i \in Ids : SrvUnused /\ TsSoftDeleteFile(u, i)
    \/ \E u \in Users, i \in Ids : SrvUnused /\ TsRestoreFile(u, i)
    \/ \E u \in Users, i \in Ids : SrvUnused /\ TsSoftDeleteFolder(u, i)
    \/ \E u \in Users, i \in Ids : SrvUnused /\ TsRestoreFolder(u, i)
    \/ \E u \in Users, i \in Ids : SrvUnused /\ TsHardDeleteFile(u, i, FALSE)
    \/ \E u \in Users : SrvUnused /\ TsListTrash(u)

ListSpec == Init /\ [][ListNext]_vars

-----------------------------------------------------------------------------
(* The purge: hard deletes of files and folders, Active or Trashed, whose    *)
(* blob removal succeeds or fails                                            *)

PurgeNext ==
    \/ \E u \in Users : CreateFolder(u, "Docs", <<>>)
    \/ \E u \in Users, p \in ExistingParents : Upload(u, TRUE, p)
    \/ \E u \in Users, i \in FolderIdInputs : SoftDeleteFolder(u, i)
    \/ \E u \in Users, i \in FileIdInputs : SoftDeleteFile(u, i)
    \/ \E u \in Users, i \in FileIdInputs : RestoreFile(u, i)
    \/ \E u \in Users, i \in FileIdInputs, rmFails \in BOOLEAN :
          HardDeleteFile(u, i, rmFails)
    \/ \E u \in Users, i \in FolderIdInputs, failing \in SUBSET FileIdInputs :
          HardDeleteFolder(u, i, failing)
    \/ \E u \in Users, i \in Ids : TsSoftDeleteFile(u, i)
    \/ \E u \in Users, i \in Ids : TsRestoreFile(u, i)
    \/ \E u \in Users, i \in Ids, rmFails \in BOOLEAN : TsHardDeleteFile(u, i, rmFails)

PurgeSpec == Init /\ [][PurgeNext]_vars

-----------------------------------------------------------------------------
(* Parents: create, upload, move and hard delete, every request naming the   *)
(* root or a folder that exists                                              *)

ParentNext ==
    \/ \E u \in Users, p \in ExistingParents : CreateFolder(u, "Docs", p)
    \/ \E u \in Users, p \in ExistingParents : Upload(u, TRUE, p)
    \/ \E u \in Users, i \in FolderIdInputs, p \in ExistingParents : MoveFolder(u, i, p)
    \/ \E u \in Users, i \in FileIdInputs, p \in ExistingParents : MoveFile(u, i, p)
    \/ \E u \in Users, i \in FileIdInputs, rmFails \in BOOLEAN :
          HardDeleteFile(u, i, rmFails)
    \/ \E u \in Users, i \in FolderIdInputs, failing \in SUBSET FileIdInputs :
          HardDeleteFolder(u, i, failing)
    \/ \E u \in Users, p \in TsParentInputs : TsCreateFolder(u, "Docs", p)
    \/ \E u \in Users, i \in Ids, p \in TsParentInputs : TsMoveFolder(u, i, p)
    \/ \E u \in Users, i \in Ids, p \in TsParentInputs : TsMoveFile(u, i, p)

ParentSpec == Init /\ [][ParentNext]_vars

-----------------------------------------------------------------------------
(* The folder cascade with stops: one run at a time, a run may stop between  *)
(* its two updates and be sent again                                         *)

RetryNext ==
    \/ \E u \in Users : pending = {} /\ CreateFolder(u, "Docs", <<>>)
    \/ \E p \in ExistingParents : pending = {} /\ Upload("u1", TRUE, p)
    \/ \E u \in Users, i \in FileIdInputs : pending = {} /\ SoftDeleteFile(u, i)
    \/ \E u \in Users, i \in FileIdInputs : pending = {} /\ RestoreFile(u, i)
    \/ \E u \in Users, i \in FolderIdInputs : pending = {} /\ SoftDeleteFolderRow(u, i)
    \/ \E u \in Users, i \in FolderIdInputs : pending = {} /\ RestoreFolderRow(u, i)
    \/ \E p \in pending : SoftDeleteFolderFiles(p)
    \/ \E p \in pending : RestoreFolderFiles(p)
    \/ \E p \in pending : Stop(p)

RetrySpec == Init /\ [][RetryNext]_vars

-----------------------------------------------------------------------------
(* The folder cascade under concurrency: soft deletes and restores of one    *)
(* folder whose store calls interleave. Files are uploaded while every       *)
(* folder is Active and no run is under way, and no file is trashed or       *)
(* restored on its own.                                                      *)

RaceNext ==
    \/ \E u \in Users : pending = {} /\ CreateFolder(u, "Docs", <<>>)
    \/ \E u \in Users, p \in ExistingParents :
          /\ pending = {}
          /\ \A f \in srvFolders : ~f.is_deleted
          /\ Upload(u, TRUE, p)
    \/ \E u \in Users, i \in FolderIdInputs : SoftDeleteFolderRow(u, i)
    \/ \E u \in Users, i \in FolderIdInputs : RestoreFolderRow(u, i)
    \/ \E p \in pending : SoftDeleteFolderFiles(p)
    \/ \E p \in pending : RestoreFolderFiles(p)

RaceSpec == Init /\ [][RaceNext]_vars

-----------------------------------------------------------------------------
(* Containment in server/index.js: completed uploads, moves of files, soft   *)
(* deletes and restores, every request naming the root or a folder that      *)
(* exists                                                                    *)

ContainNext ==
    \/ \E u \in Users : CreateFolder(u, "Docs", <<>>)
    \/ \E u \in Users, p \in ExistingParents : Upload(u, TRUE, p)
    \/ \E u \in Users, i \in FileIdInputs, p \in ExistingParents : MoveFile(u, i, p)
    \/ \E u \in Users, i \in FolderIdInputs : SoftDeleteFolder(u, i)
    \/ \E u \in Users, i \in FolderIdInputs : RestoreFolder(u, i)
    \/ \E u \in Users, i \in FileIdInputs : SoftDeleteFile(u, i)
    \/ \E u \in Users, i \in FileIdInputs : RestoreFile(u, i)

ContainSpec == Init /\ [][ContainNext]_vars

-----------------------------------------------------------------------------
(* Claims *)

ExistingRefs == {<<t, r.id>> : t \in ResourceTypes, r \in files \cup folders}
                  \cap {ref \in ResourceTypes \X Ids : HasSingle(OwnerRows(ref[1], ref[2]))}

OwnerOf(ref) == Single(OwnerRows(ref[1], ref[2])).owner_id

\* C1: for every existing resource, resolving the role of its owner returns
\* "owner" whatever share token is presented (none, the link's, another, an
\* expired link's) and whatever ShareLink and Grant rows exist; and every
\* resolution made for the owner answered "owner".
C1_OwnerAlwaysOwner ==
    /\ \A ref \in ExistingRefs, k \in TokenInputs :
          resolveUserRole(OwnerOf(ref), ref[1], ref[2], k) = "owner"
    /\ (/\ resp.op = "resolve"
        /\ <<resp.resource_type, resp.resource_id>> \in ExistingRefs
        /\ resp.userId = OwnerOf(<<resp.resource_type, resp.resource_id>>))
       => resp.role = "owner"

\* C1 witness: the owner resolved with the token of an expired viewer link,
\* while a grant exists on the same resource, and got "owner".
C1_Witness ==
    /\ resp.op = "resolve"
    /\ resp.role = "owner"
    /\ \E s \in ShareRows(resp.resource_type, resp.resource_id) :
          /\ s.link_token = resp.shareToken
          /\ s.role = "viewer"
          /\ s.expires_at # <<>>
          /\ s.expires_at[1] < now
    /\ \E g \in permissions :
          g.resource_type = resp.resource_type /\ g.resource_id = resp.resource_id

\* C2 as stated: with no principal and the link's token, a link with an
\* expiry resolves to its role only while expires_at > now, and to none when
\* expires_at is not later than now.
C2_RoleOnlyWhileLater ==
    \A s \in shares :
        s.expires_at # <<>> =>
            resolveUserRole(NULL, s.resource_type, s.resource_id, s.link_token)
              = IF s.expires_at[1] > now THEN s.role ELSE NULL

\* C2 amended: with no principal and the link's token, a link with an expiry
\* resolves to its role while expires_at is not earlier than now, and to none,
\* never its nominal role, once expires_at is earlier than now.
C2_RoleUntilPast ==
    \A s \in shares :
        s.expires_at # <<>> =>
            resolveUserRole(NULL, s.resource_type, s.resource_id, s.link_token)
              = IF s.expires_at[1] < now THEN NULL ELSE s.role

\* C2 witness: an anonymous caller presented the token of a link whose expiry
\* has passed and resolved to none.
C2_Witness ==
    /\ resp.op = "resolve"
    /\ resp.userId = NULL
    /\ resp.role = NULL
    /\ \E s \in ShareRows(resp.resource_type, resp.resource_id) :
          /\ s.link_token = resp.shareToken
          /\ s.expires_at # <<>>
          /\ s.expires_at[1] < now

\* The grant a principal's verified email matches on a resource.
GrantFor(u, ref) == GrantRows(ref[1], ref[2], toLowerCase(UserEmail(u)))

\* C3: when a resource has a Grant(viewer) for a non-owner principal's email
\* and a ShareLink(editor), resolving for that principal returns viewer, with
\* no token and with the link's valid token alike.
C3_GrantOutranksLink ==
    \A ref \in ExistingRefs, u \in Users, s \in shares :
        (/\ u # OwnerOf(ref)
         /\ s \in ShareRows(ref[1], ref[2])
         /\ s.role = "editor"
         /\ s.expires_at = <<>>
         /\ \E g \in GrantFor(u, ref) : g.role = "viewer")
        => \A k \in {NoToken, s.link_token} :
              resolveUserRole(u, ref[1], ref[2], k) = "viewer"

\* C4: when a resource has a Grant(editor) for a non-owner principal's email
\* and no ShareLink, resolving for that principal with no token returns editor.
C4_GrantEditorResolves ==
    \A ref \in ExistingRefs, u \in Users :
        (/\ u # OwnerOf(ref)
         /\ ShareRows(ref[1], ref[2]) = {}
         /\ \E g \in GrantFor(u, ref) : g.role = "editor")
        => resolveUserRole(u, ref[1], ref[2], NoToken) = "editor"

\* C5: when create-or-rotate succeeds on a resource that already had a link
\* with token T1, the token T2 it returns differs from T1 and T1 resolves to
\* none for an anonymous caller.
C5_RotationRetiresOldToken ==
    (/\ resp.op = "POST /link"
     /\ resp.status = 200
     /\ resp.prev_token # NoToken)
    => /\ resp.link_token # resp.prev_token
       /\ resolveUserRole(NULL, resp.resource_type, resp.resource_id,
                          resp.prev_token) = NULL

\* C6: a successful soft delete of a folder, in either backend, leaves
\* deleted_at non-null on the folder and on every file whose folder id is the
\* folder's; a successful restore leaves it null on the folder and on all of
\* those files.
C6_FolderCascade ==
    /\ (resp.op = "DELETE /folders/:id" /\ resp.status = 200) =>
          /\ \A f \in SrvFolderRows(resp.id) : f.deleted_at # <<>>
          /\ \A f \in FilesIn(resp.id) : f.deleted_at # <<>>
    /\ (resp.op = "POST /restore/folder/:id" /\ resp.status = 200) =>
          /\ \A f \in SrvFolderRows(resp.id) : f.deleted_at = <<>>
          /\ \A f \in FilesIn(resp.id) : f.deleted_at = <<>>
    /\ (resp.op = "DELETE /api/folders/:id" /\ resp.status = 200) =>
          /\ \A f \in TsFolderRows(resp.uuid) : f.deleted_at # <<>>
          /\ \A f \in files : f.folder_id = resp.uuid => f.deleted_at # <<>>
    /\ (resp.op = "POST /api/folders/:id/restore" /\ resp.status = 200) =>
          /\ \A f \in TsFolderRows(resp.uuid) : f.deleted_at = <<>>
          /\ \A f \in files : f.folder_id = resp.uuid => f.deleted_at = <<>>

\* C7: a folder purge in which the removal of some file's blob failed does not
\* answer success and does not delete the folder's row.
C7_PartialFailureKeepsFolder ==
    (resp.op = "DELETE /folders/:id/hard" /\ resp.status = 200) =>
        resp.warned = {}

\* C8: at most one shares row exists per (resource_type, resource_id) however
\* the link requests interleave; when a create-or-rotate write commits, the
\* resource has exactly one row and it carries the role and the expiry of
\* that write, and when a revoke commits the resource has no row.
C8_OneLinkPerResource ==
    /\ \A s1, s2 \in shares :
          (s1.resource_type = s2.resource_type /\ s1.resource_id = s2.resource_id)
          => s1 = s2
    /\ (resp.op = "POST /link" /\ resp.status = 200) =>
          \E s \in shares :
             /\ ShareRows(resp.resource_type, resp.resource_id) = {s}
             /\ s.role = resp.request.role
             /\ s.expires_at = resp.request.expires_at
    /\ (resp.op = "DELETE /link" /\ resp.status = 200) =>
          ShareRows(resp.resource_type, resp.resource_id) = {}

\* C8 witness: a create-or-rotate write committed after a concurrent write on
\* the same resource had overtaken it, replaced that write's role, and the
\* resource has exactly one row.
C8_Witness ==
    /\ resp.op = "POST /link"
    /\ resp.status = 200
    /\ resp.request.raced
    /\ resp.prev_token # NoToken
    /\ Cardinality(ShareRows(resp.resource_type, resp.resource_id)) = 1
    /\ \E s \in shares : s.role = resp.request.role /\ s.role = "editor"

\* Grants of one resource whose email equals e when letter case is ignored.
GrantsIgnoringCase(resourceType, resourceId, e) ==
    {g \in permissions : /\ g.resource_type = resourceType
                         /\ g.resource_id = resourceId
                         /\ toLowerCase(g.grantee_email) = toLowerCase(e)}

\* C9: at most one grant exists per (resource_type, resource_id, email) with
\* emails compared ignoring case; after a grant call succeeds the email has
\* exactly one grant, holding the role just given; after a revoke call
\* succeeds the email, in whatever case it was typed, has no grant.
C9_OneGrantPerEmail ==
    /\ \A g1, g2 \in permissions :
          (/\ g1.resource_type = g2.resource_type
           /\ g1.resource_id = g2.resource_id
           /\ toLowerCase(g1.grantee_email) = toLowerCase(g2.grantee_email))
          => g1 = g2
    /\ (resp.op = "POST /grant" /\ resp.status = 200) =>
          \E g \in permissions :
             /\ GrantsIgnoringCase(resp.resource_type, resp.resource_id, resp.email) = {g}
             /\ g.role = resp.role
    /\ (resp.op = "DELETE /grant" /\ resp.status = 200) =>
          GrantsIgnoringCase(resp.resource_type, resp.resource_id, resp.email) = {}

\* C9 witness: an email typed in upper case was granted again with another
\* role than the one it held, and holds the new one.
C9_Witness ==
    /\ resp.op = "POST /grant"
    /\ resp.status = 200
    /\ resp.email # toLowerCase(resp.email)
    /\ resp.prev_role \notin {"", resp.role}
    /\ \E g \in permissions :
          /\ GrantsIgnoringCase(resp.resource_type, resp.resource_id, resp.email) = {g}
          /\ g.role = resp.role

\* C10: no shares row and no permissions row has role owner.
C10_OwnerNeverShared ==
    /\ \A s \in shares : s.role # "owner"
    /\ \A g \in permissions : g.role # "owner"

\* server/index.js keeps no shares and no grants: the role a caller holds on
\* one of its rows is owner when the row's owner is the caller, and none else.
SrvRole(user, owner) == IF user = owner THEN "owner" ELSE NULL

\* The action a server/index.js route performs, as utils/permissions names it.
SrvAction(op) == IF op = "GET /files/:id/download" THEN "read" ELSE "write"

\* C11: a move of a folder, a move of a file or a download-URL request that
\* took effect (answered 200) was made by a caller whose role on the resource
\* permits the action; no such request succeeds for a caller with no role.
C11_EffectOnlyWithRole ==
    (/\ resp.op \in {"PATCH /folders/:id/move", "PATCH /files/:id/move",
                     "GET /files/:id/download"}
     /\ resp.status = 200)
    => roleAllows(SrvRole(resp.user, resp.owner), SrvAction(resp.op))

\* The parent edges of a folders table, as <<child, parent>> pairs.
TsEdges == {<<f.id, f.parent_id>> : f \in {g \in folders : g.parent_id # NULL}}
SrvEdges == {<<f.id, f.parent_id[1]>> : f \in {g \in srvFolders : g.parent_id # <<>>}}

\* The pairs <<folder, ancestor>> reached through at most n + 1 parent edges.
RECURSIVE AncestorPairs(_, _)
AncestorPairs(edges, n) ==
    IF n = 0 THEN edges
    ELSE LET prev == AncestorPairs(edges, n - 1)
             joined == {pe \in prev \X edges : pe[1][2] = pe[2][1]}
         IN  prev \cup {<<pe[1][1], pe[2][2]>> : pe \in joined}

Acyclic(edges) ==
    \A p \in AncestorPairs(edges, Cardinality(edges)) : p[1] # p[2]

\* C18: in both backends no folder is its own parent or its own transitive
\* ancestor, whatever create-folder and move-folder requests have been served.
C18_ParentChainAcyclic == Acyclic(TsEdges) /\ Acyclic(SrvEdges)

\* The failures the resolver is required to raise.
NotFound == "NotFound"
ResolutionError == "ResolutionError"

\* C12: a resolution on a resource id that does not exist fails with NotFound
\* for every principal and every share token; it returns neither a role nor
\* none.
C12_MissingResourceNotFound ==
    (/\ resp.op = "resolve"
     /\ <<resp.resource_type, resp.resource_id>> \notin ExistingRefs)
    => resp.role = NotFound

\* C13: a resolution during which a query it issued failed because the store
\* was unavailable ends in ResolutionError; it returns neither none nor a role.
C13_OutageIsHardError ==
    (resp.op = "resolve during outage" /\ resp.down \cap resp.queried # {})
    => resp.role = ResolutionError

\* The fixed table of roles and the actions each permits.
PolicyTable ==
    [viewer |-> {"read"},
     editor |-> {"read", "write"},
     owner  |-> {"read", "write", "hard-delete", "share"}]

\* C14: ensureAllowed succeeds exactly when the role is non-null and the
\* table permits the action; for a null role and for every other pair,
\* unknown roles and unknown actions included, it denies with 403, and the
\* table lookup raises nothing.
C14_GateFollowsTable ==
    resp.op = "ensureAllowed" =>
        /\ ~roleAllowsThrows(resp.role)
        /\ resp.outcome = IF /\ resp.role \in DOMAIN PolicyTable
                             /\ resp.action \in PolicyTable[resp.role]
                          THEN "ok"
                          ELSE "403"

\* A principal with no grant at all on a resource: no permissions row for the
\* principal's email and no link a token could match.
NoGrant(u, ref) == GrantFor(u, ref) = {} /\ ShareRows(ref[1], ref[2]) = {}

\* The ids no row of a table has.
MissingIds(rows) == {i \in Ids : \A r \in rows : r.id # i}

\* The resource a files.routes / folders.routes trash response is about.
TsRef(r) ==
    <<IF r.op \in {"DELETE /api/files/:id", "POST /api/files/:id/restore"}
      THEN "file" ELSE "folder", r.uuid>>

TsTrashOps ==
    {"DELETE /api/files/:id", "POST /api/files/:id/restore",
     "DELETE /api/folders/:id", "POST /api/folders/:id/restore"}

\* C15: when a principal with no grant at all is refused on an existing
\* resource of someone else, the answer is the one the same request gets on an
\* id that does not exist: for the soft delete and restore of files and
\* folders, for create-link, and for the folder soft delete of server/index.js.
C15_DenialHidesExistence ==
    /\ (/\ resp.op \in TsTrashOps
        /\ TsRef(resp) \in ExistingRefs
        /\ resp.user # OwnerOf(TsRef(resp))
        /\ NoGrant(resp.user, TsRef(resp)))
       => \A i \in MissingIds(Table(TsRef(resp)[1])) :
             resp.status = TsStatus(resp.user, OwnerRows(TsRef(resp)[1], i))
    /\ (/\ resp.op = "POST /link"
        /\ resp.status \notin {200, 400}
        /\ <<resp.resource_type, resp.resource_id>> \in ExistingRefs
        /\ ShareRows(resp.resource_type, resp.resource_id) = {})
       => \A i \in MissingIds(Table(resp.resource_type)), u \in Users :
             resp.status = LinkStatus(u, resp.resource_type, i, "viewer")
    /\ (/\ resp.op = "DELETE /folders/:id"
        /\ resp.status # 200
        /\ SrvFolderRows(resp.id) # {})
       => \A u \in Users : resp.status = SrvStatus(u, {})

\* A principal holds write on a resource when resolution, with no token or
\* with some token, gives the principal a role that permits write.
HoldsWrite(u, ref) ==
    \E k \in TokenInputs : roleAllows(resolveUserRole(u, ref[1], ref[2], k), "write")

\* C17: a soft delete or a restore of an existing file or folder succeeds
\* exactly when the caller holds write on it (the owner, or a principal whose
\* resolved role is editor), and a refused request changes no deleted_at.
C17_TrashNeedsWrite ==
    /\ [](  (resp.op \in TsTrashOps /\ TsRef(resp) \in ExistingRefs)
            => (resp.status = 200 <=> HoldsWrite(resp.user, TsRef(resp))))
    /\ [][  (resp'.op \in TsTrashOps /\ resp'.status # 200)
            => (files' = files /\ folders' = folders)  ]_vars

\* C16: when an Active folder of server/index.js is soft-deleted and then
\* restored, the folder is Active again and each file in it is in the trash
\* state it had before the soft delete: Trashed if it was already Trashed on
\* its own, Active otherwise.
C16_RestoreInvertsSoftDelete ==
    [][ (/\ resp.op = "DELETE /folders/:id"
         /\ resp.status = 200
         /\ ~resp.folder_was_trashed
         /\ resp'.op = "POST /restore/folder/:id"
         /\ resp'.status = 200
         /\ resp'.id = resp.id)
        => /\ \A f \in srvFolders' : f.id = resp.id => ~f.is_deleted
           /\ \A f \in srvFiles' :
                 f.folder_id = <<resp.id>> =>
                     (f.is_deleted <=> f.id \in resp.files_were_trashed)
      ]_vars

\* C20: a successful restore of a folder or a file that is already Active
\* leaves every row of the files and folders tables as it was: its own
\* deleted_at stays null, and no other resource, the files of a restored
\* folder included, changes its trash state.
C20_RestoreOfActiveIsNoOp ==
    [][ /\ (/\ resp'.op = "POST /restore/folder/:id"
            /\ resp'.status = 200
            /\ \A f \in SrvFolderRows(resp'.id) : ~f.is_deleted)
           => (srvFolders' = srvFolders /\ srvFiles' = srvFiles)
        /\ (/\ resp'.op = "POST /restore/file/:id"
            /\ resp'.status = 200
            /\ \A f \in SrvFileRows(resp'.id) : ~f.is_deleted)
           => (srvFolders' = srvFolders /\ srvFiles' = srvFiles)
        /\ (/\ resp'.op = "POST /api/folders/:id/restore"
            /\ resp'.status = 200
            /\ \A f \in TsFolderRows(resp'.uuid) : f.deleted_at = <<>>)
           => (folders' = folders /\ files' = files)
        /\ (/\ resp'.op = "POST /api/files/:id/restore"
            /\ resp'.status = 200
            /\ \A f \in TsFileRows(resp'.uuid) : f.deleted_at = <<>>)
           => (folders' = folders /\ files' = files)
      ]_vars

\* C19: a revoke of a link or of a grant on an existing resource is refused
\* only to a caller who is not the owner (403); when the link, or a grant for
\* the email in any letter case, does not exist, the owner's revoke answers
\* 200 and leaves the shares and permissions tables as they were; and after
\* a successful revoke nothing is left to revoke, so a second revoke is such
\* a no-op.
C19_RevokeIdempotent ==
    /\ []( /\ (resp.op = "DELETE /link" /\ resp.status = 200)
              => ShareRows(resp.resource_type, resp.resource_id) = {}
           /\ (resp.op = "DELETE /grant" /\ resp.status = 200)
              => GrantsIgnoringCase(resp.resource_type, resp.resource_id,
                                    resp.email) = {} )
    /\ [][ /\ (/\ resp'.op = "DELETE /link"
               /\ <<resp'.resource_type, resp'.resource_id>> \in ExistingRefs
               /\ resp'.status # 403
               /\ ShareRows(resp'.resource_type, resp'.resource_id) = {})
              => (resp'.status = 200 /\ shares' = shares /\ permissions' = permissions)
           /\ (/\ resp'.op = "DELETE /grant"
               /\ <<resp'.resource_type, resp'.resource_id>> \in ExistingRefs
               /\ resp'.status # 403
               /\ GrantsIgnoringCase(resp'.resource_type, resp'.resource_id,
                                     resp'.email) = {})
              => (resp'.status = 200 /\ shares' = shares /\ permissions' = permissions)
         ]_vars

\* C19 witness: the owner revoked a grant for an email that was never
\* granted, on a resource that never had a link, and got 200, while a link and
\* a grant of another email exist and were left alone.
C19_Witness ==
    /\ resp.op = "DELETE /grant"
    /\ resp.status = 200
    /\ resp.resource_type = "folder"
    /\ toLowerCase(resp.email) # toLowerCase(UserEmail("u2"))
    /\ shares # {}
    /\ \E g \in permissions :
          g.resource_type = resp.resource_type /\ g.resource_id = resp.resource_id

\* Ids of server/index.js that were given out and whose row is gone: purged.
PurgedFileIds == {i \in 1..fileSeq : SrvFileRows(i) = {}}

\* C21: list-trash for a principal returns exactly the files and folders that
\* principal owns and that are Trashed (deleted_at non-null): nothing Active,
\* nothing purged, nothing owned by another principal, and no Trashed resource
\* of the principal is left out. Both backends.
C21_ListTrashExact ==
    /\ resp.op = "GET /trash" =>
          /\ resp.files = {f \in srvFiles : f.owner = resp.user /\ f.deleted_at # <<>>}
          /\ resp.folders =
                 {f \in srvFolders : f.owner = resp.user /\ f.deleted_at # <<>>}
          /\ {f.id : f \in resp.files} \cap PurgedFileIds = {}
    /\ resp.op = "GET /api/files/trash/list" =>
          /\ {r.uuid : r \in resp.files} =
                 {f.id : f \in {g \in files : g.owner_id = resp.user
                                                /\ g.deleted_at # <<>>}}
          /\ {r.uuid : r \in resp.folders} =
                 {f.id : f \in {g \in folders : g.owner_id = resp.user
                                                  /\ g.deleted_at # <<>>}}

\* C21 witness: a listing that returned a file of the caller while another
\* principal has a file in the trash.
C21_Witness ==
    /\ resp.op = "GET /trash"
    /\ resp.files # {}
    /\ \E f \in srvFiles : f.owner # resp.user /\ f.is_deleted

\* The links created on folders, and the files a folder contains.
FolderLinks == {s \in shares : s.resource_type = "folder"}
TsFilesIn(folderId) == {f \in files : f.folder_id = folderId}

\* C22: a share token grants a role only on the resource its link belongs to:
\* for every link on a folder F and every file contained in F, an anonymous
\* caller presenting the link's token resolves to no role on the file, before
\* and after the link expires, and the read gate refuses that role.
C22_FolderTokenNotOnFiles ==
    /\ \A s \in FolderLinks : \A f \in TsFilesIn(s.resource_id) :
          /\ resolveUserRole(NULL, "file", f.id, s.link_token) = NULL
          /\ ensureAllowed(resolveUserRole(NULL, "file", f.id, s.link_token),
                           "read") = "403"
    /\ (/\ resp.op = "resolve"
        /\ resp.userId = NULL
        /\ resp.resource_type = "file"
        /\ \E s \in FolderLinks :
              /\ s.link_token = resp.shareToken
              /\ resp.resource_id \in {f.id : f \in TsFilesIn(s.resource_id)})
       => resp.role = NULL

\* C22 witness: an anonymous caller has just resolved file x with the token of
\* the link on the folder that contains it; the token does give a role on the
\* folder, and the file has a link of its own.
C22_Witness ==
    /\ resp.op = "resolve"
    /\ resp.userId = NULL
    /\ resp.resource_type = "file"
    /\ ShareRows("file", resp.resource_id) # {}
    /\ \E s \in FolderLinks :
          /\ s.link_token = resp.shareToken
          /\ resp.resource_id \in {f.id : f \in TsFilesIn(s.resource_id)}
          /\ resolveUserRole(NULL, "folder", s.resource_id, s.link_token) \in Roles

\* C23: a resource is purged only by a hard delete of a resource that is
\* Trashed at that moment: a step that removes a row, or the blob of a row,
\* removes it from a Trashed resource, so a hard delete of an Active resource
\* keeps the record and the blob; and an id that was purged does not come back.
C23_PurgeOnlyFromTrash ==
    [][/\ \A f \in srvFiles :
            (\/ \A g \in srvFiles' : g.id # f.id
             \/ f.bucket_path \in bucket \ bucket') => f.is_deleted
       /\ \A f \in srvFolders : (\A g \in srvFolders' : g.id # f.id) => f.is_deleted
       /\ \A f \in files :
            (\/ \A g \in files' : g.id # f.id
             \/ f.storage_path \in storage \ storage') => f.deleted_at # <<>>
       /\ \A i \in PurgedFileIds : \A g \in srvFiles' : g.id # i]_vars

\* C24: in every reachable state each non-root resource's parent exists and
\* has the same owner: no file's folder id and no folder's parent id names a
\* missing folder or a folder of another principal. Both backends.
C24_ParentExistsSameOwner ==
    /\ \A f \in srvFiles : f.folder_id # <<>> =>
          \E p \in srvFolders : p.id = f.folder_id[1] /\ p.owner = f.owner
    /\ \A f \in srvFolders : f.parent_id # <<>> =>
          \E p \in srvFolders : p.id = f.parent_id[1] /\ p.owner = f.owner
    /\ \A f \in files : f.folder_id # NULL =>
          \E p \in folders : p.id = f.folder_id /\ p.owner_id = f.owner_id
    /\ \A f \in folders : f.parent_id # NULL =>
          \E p \in folders : p.id = f.parent_id /\ p.owner_id = f.owner_id

\* A table without its time stamps.
Forget(rows) == {[r EXCEPT !.deleted_at = <<>>] : r \in rows}

\* The files table an uninterrupted run of the cascade leaves, time stamps apart.
Uninterrupted(filesBefore, id, deleted) ==
    Forget({IF f.folder_id = <<id>> THEN [f EXCEPT !.is_deleted = deleted] ELSE f :
               f \in filesBefore})

\* C25: the folder cascade is safely retryable: when a folder soft delete (or
\* restore) stopped after its folder-row update and before its file-rows
\* update, and the same operation is run again, that run ends (it has
\* answered and no run is under way) with the folder and all its directly
\* contained files Trashed (resp. Active), which is the end state of an
\* uninterrupted run from where the stopped one began.
C25_CascadeRetryConverges ==
    (/\ resp.op \in {"DELETE /folders/:id", "POST /restore/folder/:id"}
     /\ resp.status = 200
     /\ resp.request.reruns # {}
     /\ pending = {})
    => /\ \A F \in SrvFolderRows(resp.id) : F.is_deleted = resp.request.deleted
       /\ \A f \in FilesIn(resp.id) : f.is_deleted = resp.request.deleted
       /\ \A s \in resp.request.reruns :
             Forget(srvFiles) =
                Uninterrupted(s.files_before, resp.id, resp.request.deleted)

\* C25 witness: a soft delete that re-ran a stopped one has answered, and the
\* folder holds a file that the stopped run had left Active.
C25_Witness ==
    /\ resp.op = "DELETE /folders/:id"
    /\ resp.status = 200
    /\ resp.request.reruns # {}
    /\ pending = {}
    /\ \E f \in resp.request.files_before :
          f.folder_id = <<resp.id>> /\ ~f.is_deleted

\* C26: when a soft delete and a restore of the same folder run concurrently,
\* their folder-row and file-rows updates interleaved in any order, then once
\* both have completed (no run on the folder is under way) the folder and all
\* its directly contained files share one trash state.
C26_RaceEndsUniform ==
    \A F \in srvFolders :
        (\A p \in pending : p.id # F.id)
        => \A f \in FilesIn(F.id) : f.is_deleted = F.is_deleted

\* C27: in server/index.js, after any sequence of completed upload, move-file,
\* soft-delete and restore operations, no Active file is contained in a
\* Trashed folder: an upload or a move into a Trashed folder is refused or
\* leaves the file Trashed.
C27_NoActiveFileInTrashedFolder ==
    \A F \in srvFolders : F.is_deleted => \A f \in FilesIn(F.id) : f.is_deleted

====
